---- MODULE Spec2Model ----
(***************************************************************************)
(* Model of infrastructure/aws-connect-lambda/lambda_function.py: the AWS  *)
(* Connect contact-flow Lambda that extracts call metadata from the event  *)
(* and forwards it to the Whispa backend.                                  *)
(*                                                                         *)
(* Python values are tagged records: None, str and dict.  A dict is a      *)
(* function whose DOMAIN is the set of keys that are present, so that a    *)
(* key that is absent, a key whose value is null and a key whose value is  *)
(* the empty string are three different events, as they are for dict.get.  *)
(* URLs are sequences of characters because the code strips and the        *)
(* library parses them character by character; all other strings are       *)
(* opaque and kept as TLA+ strings.                                        *)
(***************************************************************************)
EXTENDS Integers, Sequences, FiniteSets, TLC

VARIABLES WHISPA_API_URL, WHISPA_API_KEY,
          pc, event, locals, payload, request, calls, delivery, result, raised

vars == <<WHISPA_API_URL, WHISPA_API_KEY,
          pc, event, locals, payload, request, calls, delivery, result, raised>>

(***************************************************************************)
(* Bounds                                                                  *)
(***************************************************************************)
MaxUrlLen == 4

NumInvocations == 2

Invocations == 1..NumInvocations

(***************************************************************************)
(* Python values                                                           *)
(***************************************************************************)
PyNone == [t |-> "None"]

Str(s) == [t |-> "str", v |-> s]

Dict(m) == [t |-> "dict", v |-> m]

EmptyMap == [k \in {} |-> PyNone]

EmptyDict == Dict(EmptyMap)

\* bool(x): None, "" and {} are falsy
Truthy(x) ==
    CASE x.t = "None" -> FALSE
      [] x.t = "str"  -> x.v # ""
      [] x.t = "dict" -> DOMAIN x.v # {}
      [] OTHER        -> TRUE

\* a or b
Or(a, b) == IF Truthy(a) THEN a ELSE b

\* x.get raises AttributeError unless x is a dict
HasGet(x) == x.t = "dict"

\* d.get(k, default), for a dict d
Get(d, k, default) == IF k \in DOMAIN d.v THEN d.v[k] ELSE default

(***************************************************************************)
(* The events the platform delivers                                        *)
(***************************************************************************)
\* the maps of D, and each of them with key k set to each value of Vs
Ext(D, k, Vs) == D \cup { (k :> v) @@ m : m \in D, v \in Vs }

\* each map of D with key k set to each value of Vs
Put(D, k, Vs) == { (k :> v) @@ m : m \in D, v \in Vs }

Field(D, k, f) == IF f.opt THEN Ext(D, k, f.vals) ELSE Put(D, k, f.vals)

\* a key that is always present, with one of the values of S
OneOf(S) == [opt |-> FALSE, vals |-> S]

\* a key that is absent or present with one of the values of S
Maybe(S) == [opt |-> TRUE, vals |-> S]

Dicts(D) == { Dict(m) : m \in D }

Fixed(v) == OneOf({v})

\* a string field: absent, null, empty or s
AnyStr(s) == Maybe({PyNone, Str(""), Str(s)})

\* a nested mapping: absent, null, or one of the maps of D
AnyDict(D) == Maybe({PyNone} \cup Dicts(D))

CustomerEndpointMaps(address) ==
    Field({[Type |-> Str("TELEPHONE_NUMBER")]}, "Address", address)

AgentMaps(arn, username) ==
    Field(Field({EmptyMap}, "ARN", arn), "Username", username)

AttributesMaps(arn, username) ==
    Field(Field({EmptyMap}, "agent_arn", arn), "agent_username", username)

QueueMaps(name) == Field({EmptyMap}, "Name", name)

MediaStreamsMaps(customer) == Field({EmptyMap}, "Customer", customer)

CustomerMaps(audio) == Field({EmptyMap}, "Audio", audio)

AudioMaps(stream) == Field({EmptyMap}, "StreamARN", stream)

ContactDataMaps(f) ==
    LET d1 == Field({EmptyMap}, "ContactId", f.ContactId)
        d2 == Field(d1, "InstanceARN", f.InstanceARN)
        d3 == Field(d2, "CustomerEndpoint", f.CustomerEndpoint)
        d4 == Field(d3, "Agent", f.Agent)
        d5 == Field(d4, "Attributes", f.Attributes)
        d6 == Field(d5, "Name", f.Name)
        d7 == Field(d6, "Queue", f.Queue)
        d8 == Field(d7, "InitiationMethod", f.InitiationMethod)
    IN  Field(d8, "MediaStreams", f.MediaStreams)

DetailsMaps(contactData) == Field({EmptyMap}, "ContactData", contactData)

EventsOf(details) == Dicts(Field({EmptyMap}, "Details", details))

\* the audio leg with its StreamARN drawn from stream
StreamIn(stream) ==
    Dicts(MediaStreamsMaps(OneOf(Dicts(CustomerMaps(OneOf(Dicts(AudioMaps(stream))))))))

\* a fully populated valid event: every field present and non-empty
FullFields ==
    [ContactId        |-> Fixed(Str("c-1")),
     InstanceARN      |-> Fixed(Str("i-1")),
     CustomerEndpoint |-> OneOf(Dicts(CustomerEndpointMaps(Fixed(Str("+61"))))),
     Agent            |-> OneOf(Dicts(AgentMaps(Fixed(Str("A1")), Fixed(Str("U1"))))),
     Attributes       |-> OneOf(Dicts(AttributesMaps(Fixed(Str("A2")), Fixed(Str("U2"))))),
     Name             |-> Fixed(Str("U3")),
     Queue            |-> OneOf(Dicts(QueueMaps(Fixed(Str("q-1"))))),
     InitiationMethod |-> Fixed(Str("INBOUND")),
     MediaStreams     |-> OneOf(StreamIn(Fixed(Str("s-1"))))]

\* every nested mapping independently absent, null or a mapping, around a
\* ContactId that is absent, null, empty or set
ShapeFields ==
    [FullFields EXCEPT
       !.ContactId    = AnyStr("c-1"),
       !.CustomerEndpoint = AnyDict(CustomerEndpointMaps(Fixed(Str("+61")))),
       !.Agent        = AnyDict(AgentMaps(Fixed(Str("A1")), Fixed(Str("U1")))),
       !.Attributes   = AnyDict(AttributesMaps(Fixed(Str("A2")), Fixed(Str("U2")))),
       !.Queue        = AnyDict(QueueMaps(Fixed(Str("q-1")))),
       !.MediaStreams =
           AnyDict(MediaStreamsMaps(
               AnyDict(CustomerMaps(
                   AnyDict(AudioMaps(Fixed(Str("s-1"))))))))]

ShapeEvents == EventsOf(AnyDict(DetailsMaps(AnyDict(ContactDataMaps(ShapeFields)))))

\* every source of the agent fields independently absent, null, empty or set
AgentFields ==
    [FullFields EXCEPT
       !.Agent      = OneOf(Dicts(AgentMaps(AnyStr("A1"), AnyStr("U1")))),
       !.Attributes = OneOf(Dicts(AttributesMaps(AnyStr("A2"), AnyStr("U2")))),
       !.Name       = AnyStr("U3")]

AgentEvents == EventsOf(OneOf(Dicts(DetailsMaps(OneOf(Dicts(ContactDataMaps(AgentFields)))))))

\* the two required and the four plain optional fields independently absent,
\* null, empty or set; no agent information at all
PlainFields ==
    [FullFields EXCEPT
       !.ContactId        = AnyStr("c-1"),
       !.InstanceARN      = AnyStr("i-1"),
       !.CustomerEndpoint = OneOf(Dicts(CustomerEndpointMaps(AnyStr("+61")))),
       !.Agent            = Maybe({}),
       !.Attributes       = Maybe({}),
       !.Name             = Maybe({}),
       !.Queue            = OneOf(Dicts(QueueMaps(AnyStr("q-1")))),
       !.InitiationMethod = AnyStr("INBOUND"),
       !.MediaStreams     = OneOf(StreamIn(AnyStr("s-1")))]

PlainEvents == EventsOf(OneOf(Dicts(DetailsMaps(OneOf(Dicts(ContactDataMaps(PlainFields)))))))

Events == ShapeEvents \cup AgentEvents \cup PlainEvents

\* the events with Details and ContactData present and the fields drawn from f
EventsWith(f) ==
    EventsOf(OneOf(Dicts(DetailsMaps(OneOf(Dicts(ContactDataMaps(f)))))))

\* ContactId and StreamARN only: no agent, attributes, name, queue or customer
MinimalFields ==
    [FullFields EXCEPT
       !.InstanceARN = Maybe({}), !.CustomerEndpoint = Maybe({}),
       !.Agent = Maybe({}), !.Attributes = Maybe({}), !.Name = Maybe({}),
       !.Queue = Maybe({}), !.InitiationMethod = Maybe({})]

\* a handful of events that between them take every path through the handler
SomeEvents ==
    EventsWith(FullFields)
      \cup EventsWith(MinimalFields)
      \cup EventsWith([FullFields EXCEPT !.ContactId = Maybe({})])
      \cup EventsWith([FullFields EXCEPT !.MediaStreams = Maybe({})])
      \cup EventsWith([FullFields EXCEPT !.Queue = Fixed(PyNone)])

(***************************************************************************)
(* Configuration read from the environment                                 *)
(***************************************************************************)
UrlChars == {"h", ":", "/"}

Urls == UNION { [1..n -> UrlChars] : n \in 0..MaxUrlLen }

\* unset, a well-formed base URL with a trailing slash, a malformed one
SomeUrls == { <<>>, <<"h", ":", "/">>, <<"/">> }

ApiKeys == { "", "k-1" }

(***************************************************************************)
(* Extraction, lines 41-79                                                 *)
(***************************************************************************)
AttributeError(line) == [t |-> "raise", exc |-> "AttributeError", line |-> line]

\* the two sources of agent_arn consulted in the wrong order
AgentArn_AttributesFirst(agent_data, attributes) ==
    LET b == IF HasGet(attributes)
             THEN Get(attributes, "agent_arn", PyNone) ELSE PyNone
    IN  IF Truthy(b) THEN b
        ELSE Or(Get(agent_data, "ARN", PyNone), PyNone)

\* agent_data.get("ARN") or attributes.get("agent_arn") or None
AgentArn(agent_data, attributes) ==
    LET a == Get(agent_data, "ARN", PyNone)
    IN  IF Truthy(a) THEN a
        ELSE Or(Get(attributes, "agent_arn", PyNone), PyNone)

\* attributes.get is reached only when agent_data.get("ARN") is falsy
AgentArnRaises(agent_data, attributes) ==
    \/ ~HasGet(agent_data)
    \/ ~Truthy(Get(agent_data, "ARN", PyNone)) /\ ~HasGet(attributes)

\* agent_data.get("Username") or attributes.get("agent_username")
\*   or contact_data.get("Name") or None
AgentUsername(agent_data, attributes, contact_data) ==
    LET a == Get(agent_data, "Username", PyNone)
    IN  IF Truthy(a) THEN a
        ELSE LET b == Get(attributes, "agent_username", PyNone)
             IN  IF Truthy(b) THEN b
                 ELSE Or(Get(contact_data, "Name", PyNone), PyNone)

AgentUsernameRaises(agent_data, attributes) ==
    \/ ~HasGet(agent_data)
    \/ ~Truthy(Get(agent_data, "Username", PyNone)) /\ ~HasGet(attributes)

\* the local variables after line 79, or the exception raised on the way
ExtractFields(ev) ==
    LET details == Get(ev, "Details", EmptyDict)
    IN
    IF ~HasGet(details) THEN AttributeError(42) ELSE
    LET contact_data == Get(details, "ContactData", EmptyDict)
    IN
    IF ~HasGet(contact_data) THEN AttributeError(45) ELSE
    LET customer_endpoint == Get(contact_data, "CustomerEndpoint", EmptyDict)
        agent_data        == Get(contact_data, "Agent", EmptyDict)
        attributes        == Get(contact_data, "Attributes", EmptyDict)
        queue_data        == Get(contact_data, "Queue", EmptyDict)
        media_streams     == Get(contact_data, "MediaStreams", EmptyDict)
    IN
    IF ~HasGet(customer_endpoint) THEN AttributeError(50) ELSE
    IF AgentArnRaises(agent_data, attributes) THEN AttributeError(61) ELSE
    IF AgentUsernameRaises(agent_data, attributes) THEN AttributeError(63) ELSE
    IF ~HasGet(queue_data) THEN AttributeError(71) ELSE
    IF ~HasGet(media_streams) THEN AttributeError(78) ELSE
    LET customer == Get(media_streams, "Customer", EmptyDict)
    IN
    IF ~HasGet(customer) THEN AttributeError(78) ELSE
    LET customer_audio == Get(customer, "Audio", EmptyDict)
    IN
    IF ~HasGet(customer_audio) THEN AttributeError(79) ELSE
    [t                 |-> "locals",
     contact_id        |-> Get(contact_data, "ContactId", Str("")),
     instance_arn      |-> Get(contact_data, "InstanceARN", Str("")),
     customer_number   |-> Get(customer_endpoint, "Address", Str("")),
     agent_arn         |-> AgentArn(agent_data, attributes),
     agent_username    |-> AgentUsername(agent_data, attributes, contact_data),
     queue_name        |-> Get(queue_data, "Name", Str("")),
     initiation_method |-> Get(contact_data, "InitiationMethod", Str("")),
     stream_arn        |-> Get(customer_audio, "StreamARN", Str(""))]

(***************************************************************************)
(* Results, payload and request                                            *)
(***************************************************************************)
MissingStreamArn ==
    Dict([statusCode |-> 400,
          error |-> Str("Missing stream_arn - 'Start media streaming' block must run first")])

MissingContactId ==
    Dict([statusCode |-> 400, error |-> Str("Missing contact_id in event")])

Success(contact_id, stream_arn) ==
    Dict([statusCode |-> 200, contactId |-> contact_id, streamArn |-> stream_arn])

\* the normalisation left out: an empty string stays an empty string
OrNone_Identity(x) == x

\* x or None
OrNone(x) == Or(x, PyNone)

Payload(l) ==
    Dict([contact_id        |-> l.contact_id,
          stream_arn        |-> l.stream_arn,
          customer_number   |-> OrNone(l.customer_number),
          agent_arn         |-> OrNone(l.agent_arn),
          agent_username    |-> OrNone(l.agent_username),
          instance_arn      |-> OrNone(l.instance_arn),
          queue_name        |-> OrNone(l.queue_name),
          initiation_method |-> OrNone(l.initiation_method)])

\* json.dumps of one value: None is the literal null, a string is quoted
JsonValue(x) == IF x.t = "None" THEN "null" ELSE "\"" \o x.v \o "\""

\* json.dumps(payload): the JSON text of each member of the object
JsonDumps(p) == [k \in DOMAIN p.v |-> JsonValue(p.v[k])]

\* s.rstrip(c)
RECURSIVE RStrip(_, _)
RStrip(s, c) ==
    IF s # <<>> /\ s[Len(s)] = c THEN RStrip(SubSeq(s, 1, Len(s) - 1), c) ELSE s

CallStartedPath ==
    <<"/", "a", "w", "s", "c", "o", "n", "n", "e", "c", "t",
      "/", "c", "a", "l", "l", "-", "s", "t", "a", "r", "t", "e", "d">>

\* the trailing slashes left in place
Endpoint_NoStrip(url) == url \o CallStartedPath

\* f"{WHISPA_API_URL.rstrip('/')}/awsconnect/call-started"
Endpoint(url) == RStrip(url, "/") \o CallStartedPath

\* the key header attached whether or not a key is configured
Headers_AlwaysKey(key) ==
    [h \in {"Content-Type", "X-API-Key"} |->
        IF h = "Content-Type" THEN "application/json" ELSE key]

Headers(key) ==
    IF key # ""
    THEN [h \in {"Content-Type", "X-API-Key"} |->
             IF h = "Content-Type" THEN "application/json" ELSE key]
    ELSE [h \in {"Content-Type"} |-> "application/json"]

Timeout == 10

\* urllib.request.Request(url, ...) raises ValueError("unknown url type")
\* unless url starts with a scheme: one or more characters other than
\* '/' and ':' followed by ':'
HasScheme(url) ==
    \E n \in 2..Len(url) :
        /\ url[n] = ":"
        /\ \A m \in 1..(n - 1) : url[m] \notin {"/", ":"}

Request(url, key, p) ==
    [t |-> "request", method |-> "POST", url |-> Endpoint(url),
     headers |-> Headers(key), data |-> JsonDumps(p), timeout |-> Timeout]

BaseUrlConfigured == WHISPA_API_URL # <<>>

(***************************************************************************)
(* Initial states                                                          *)
(***************************************************************************)
Configured(url, key) ==
    /\ WHISPA_API_URL = url
    /\ WHISPA_API_KEY = key

Invoked(ev) ==
    /\ event = ev
    /\ pc = [i \in Invocations |-> IF ev[i].t = "dict" THEN "extract" ELSE "idle"]
    /\ locals = [i \in Invocations |-> PyNone]
    /\ payload = [i \in Invocations |-> PyNone]
    /\ request = [i \in Invocations |-> PyNone]
    /\ calls = [i \in Invocations |-> 0]
    /\ delivery = [i \in Invocations |-> "none"]
    /\ result = [i \in Invocations |-> PyNone]
    /\ raised = [i \in Invocations |-> "none"]

\* one invocation: every event with a few configurations, and a few events
\* with every configuration
Init ==
    \E in \in (Events \X SomeUrls) \cup (SomeEvents \X Urls), key \in ApiKeys :
        /\ Configured(in[2], key)
        /\ Invoked([i \in Invocations |-> IF i = 1 THEN in[1] ELSE PyNone])

\* concurrent invocations in one process
InitConcurrent ==
    \E url \in SomeUrls, key \in ApiKeys, ev \in [Invocations -> SomeEvents] :
        /\ Configured(url, key)
        /\ Invoked(ev)

(***************************************************************************)
(* The handler, one invocation i                                           *)
(***************************************************************************)
\* lines 41-79
Extract(i) ==
    /\ pc[i] = "extract"
    /\ LET r == ExtractFields(event[i])
       IN  IF r.t = "raise"
           THEN /\ raised' = [raised EXCEPT ![i] = r.exc]
                /\ pc' = [pc EXCEPT ![i] = "raised"]
                /\ UNCHANGED locals
           ELSE /\ locals' = [locals EXCEPT ![i] = r]
                /\ pc' = [pc EXCEPT ![i] = "validate"]
                /\ UNCHANGED raised
    /\ UNCHANGED <<WHISPA_API_URL, WHISPA_API_KEY, event, payload, request,
                   calls, delivery, result>>

\* lines 82-93
Validate(i) ==
    /\ pc[i] = "validate"
    /\ IF ~Truthy(locals[i].stream_arn)
       THEN /\ result' = [result EXCEPT ![i] = MissingStreamArn]
            /\ pc' = [pc EXCEPT ![i] = "done"]
       ELSE IF ~Truthy(locals[i].contact_id)
       THEN /\ result' = [result EXCEPT ![i] = MissingContactId]
            /\ pc' = [pc EXCEPT ![i] = "done"]
       ELSE /\ pc' = [pc EXCEPT ![i] = "build"]
            /\ UNCHANGED result
    /\ UNCHANGED <<WHISPA_API_URL, WHISPA_API_KEY, event, locals, payload,
                   request, calls, delivery, raised>>

\* lines 96-107
BuildPayload(i) ==
    /\ pc[i] = "build"
    /\ payload' = [payload EXCEPT ![i] = Payload(locals[i])]
    /\ pc' = [pc EXCEPT ![i] = "deliver"]
    /\ UNCHANGED <<WHISPA_API_URL, WHISPA_API_KEY, event, locals, request,
                   calls, delivery, result, raised>>

\* the delivery step ends with outcome o logged and the handler going on to pcNext
Delivered(i, o, pcNext) ==
    /\ delivery' = [delivery EXCEPT ![i] = o]
    /\ pc' = [pc EXCEPT ![i] = pcNext]

\* a missing base URL treated as a failure of the invocation
SkipDelivery_Fails(i) ==
    /\ pc[i] = "deliver"
    /\ ~BaseUrlConfigured
    /\ delivery' = [delivery EXCEPT ![i] = "skipped"]
    /\ result' = [result EXCEPT
                    ![i] = Dict([statusCode |-> 500,
                                 error |-> Str("WHISPA_API_URL not configured")])]
    /\ pc' = [pc EXCEPT ![i] = "done"]
    /\ UNCHANGED <<WHISPA_API_URL, WHISPA_API_KEY, event, locals, payload,
                   request, calls, raised>>

\* lines 140-141: no base URL
SkipDelivery(i) ==
    /\ pc[i] = "deliver"
    /\ ~BaseUrlConfigured
    /\ Delivered(i, "skipped", "return")
    /\ UNCHANGED <<WHISPA_API_URL, WHISPA_API_KEY, event, locals, payload,
                   request, calls, result, raised>>

\* lines 118-123 and 137-139: Request() raises, caught by except Exception
RequestRejected(i) ==
    /\ pc[i] = "deliver"
    /\ BaseUrlConfigured
    /\ ~HasScheme(Endpoint(WHISPA_API_URL))
    /\ Delivered(i, "unexpected", "return")
    /\ UNCHANGED <<WHISPA_API_URL, WHISPA_API_KEY, event, locals, payload,
                   request, calls, result, raised>>

\* line 124: urlopen(req, timeout=10) is called
UrlOpen(i) ==
    /\ pc[i] = "deliver"
    /\ BaseUrlConfigured
    /\ HasScheme(Endpoint(WHISPA_API_URL))
    /\ request' = [request EXCEPT
                     ![i] = Request(WHISPA_API_URL, WHISPA_API_KEY, payload[i])]
    /\ calls' = [calls EXCEPT ![i] = @ + 1]
    /\ pc' = [pc EXCEPT ![i] = "urlopen"]
    /\ UNCHANGED <<WHISPA_API_URL, WHISPA_API_KEY, event, locals, payload,
                   delivery, result, raised>>

Responded(i, o, pcNext) ==
    /\ pc[i] = "urlopen"
    /\ Delivered(i, o, pcNext)
    /\ UNCHANGED <<WHISPA_API_URL, WHISPA_API_KEY, event, locals, payload,
                   request, calls, result>>

\* lines 124-126: a response arrives and its body is read and decoded
ResponseOk(i) ==
    /\ Responded(i, "ok", "return")
    /\ UNCHANGED raised

\* lines 128-131: an error status; the error body is read and logged
HttpError(i) ==
    /\ Responded(i, "http_error", "return")
    /\ UNCHANGED raised

\* line 129: an error status, and e.read().decode("utf-8") raises inside the
\* except clause, where no other except clause of the statement applies
HttpErrorBodyUnreadable(i) ==
    /\ Responded(i, "http_error", "raised")
    /\ raised' = [raised EXCEPT ![i] = "UnicodeDecodeError"]

\* lines 133-135: connection failure or connect timeout
UrlError(i) ==
    /\ Responded(i, "url_error", "return")
    /\ UNCHANGED raised

\* lines 137-139: anything else raised in the try block (read timeout,
\* undecodable response body, invalid header value...)
UnexpectedError(i) ==
    /\ Responded(i, "unexpected", "return")
    /\ UNCHANGED raised

\* lines 145-149
Return(i) ==
    /\ pc[i] = "return"
    /\ result' = [result EXCEPT
                    ![i] = Success(locals[i].contact_id, locals[i].stream_arn)]
    /\ pc' = [pc EXCEPT ![i] = "done"]
    /\ UNCHANGED <<WHISPA_API_URL, WHISPA_API_KEY, event, locals, payload,
                   request, calls, delivery, raised>>

Next ==
    \E i \in Invocations :
        \/ Extract(i)
        \/ Validate(i)
        \/ BuildPayload(i)
        \/ SkipDelivery(i)
        \/ RequestRejected(i)
        \/ UrlOpen(i)
        \/ ResponseOk(i)
        \/ HttpError(i)
        \/ HttpErrorBodyUnreadable(i)
        \/ UrlError(i)
        \/ UnexpectedError(i)
        \/ Return(i)

Spec == Init /\ [][Next]_vars

SpecConcurrent == InitConcurrent /\ [][Next]_vars

(***************************************************************************)
(* What the claims speak of, read off the event itself                     *)
(***************************************************************************)
\* the value at a path of keys, None when a key on the way is missing or its
\* value is not a mapping
RECURSIVE Lookup(_, _)
Lookup(v, path) ==
    IF path = <<>> THEN v
    ELSE IF v.t = "dict" /\ Head(path) \in DOMAIN v.v
         THEN Lookup(v.v[Head(path)], Tail(path))
         ELSE PyNone

\* neither absent nor empty
Present(x) == x.t = "str" /\ x.v # ""

AtContactData(e, path) == Lookup(e, <<"Details", "ContactData">> \o path)

ContactIdOf(e) == AtContactData(e, <<"ContactId">>)

StreamArnOf(e) == AtContactData(e, <<"MediaStreams", "Customer", "Audio", "StreamARN">>)

\* the first value of the paths that is present, else None
RECURSIVE FirstPresent(_, _)
FirstPresent(e, paths) ==
    IF paths = <<>> THEN PyNone
    ELSE IF Present(AtContactData(e, Head(paths)))
         THEN AtContactData(e, Head(paths))
         ELSE FirstPresent(e, Tail(paths))

\* the sources of the payload's fields, in order of priority
Sources ==
    [contact_id        |-> << <<"ContactId">> >>,
     stream_arn        |-> << <<"MediaStreams", "Customer", "Audio", "StreamARN">> >>,
     customer_number   |-> << <<"CustomerEndpoint", "Address">> >>,
     agent_arn         |-> << <<"Agent", "ARN">>, <<"Attributes", "agent_arn">> >>,
     agent_username    |-> << <<"Agent", "Username">>,
                              <<"Attributes", "agent_username">>, <<"Name">> >>,
     instance_arn      |-> << <<"InstanceARN">> >>,
     queue_name        |-> << <<"Queue", "Name">> >>,
     initiation_method |-> << <<"InitiationMethod">> >>]

PayloadFields == DOMAIN Sources

Terminal(i) == pc[i] \in {"done", "raised"}

Started(i) == pc[i] # "idle"

\* the invocation got past both checks of lines 82-93
Validated(i) ==
    /\ locals[i].t = "locals"
    /\ Truthy(locals[i].stream_arn)
    /\ Truthy(locals[i].contact_id)

PastDelivery(i) == Validated(i) /\ pc[i] \in {"return", "done", "raised"}

Built(i) == payload[i].t = "dict"

Sent(i) == request[i].t = "request"

SuccessOf(e) == Success(ContactIdOf(e), StreamArnOf(e))

ValidationFailed(r) ==
    /\ r.t = "dict"
    /\ DOMAIN r.v = {"statusCode", "error"}
    /\ r.v["statusCode"] = 400

Completed(r) ==
    /\ r.t = "dict"
    /\ DOMAIN r.v = {"statusCode", "contactId", "streamArn"}
    /\ r.v["statusCode"] = 200

\* C1: an event without a StreamARN (absent or empty) is answered with the
\* 400 "Missing stream_arn" result whatever its other fields are, and no
\* outbound call is made for it.
C1_MissingStreamArnRejected ==
    \A i \in Invocations :
        Started(i) /\ ~Present(StreamArnOf(event[i])) =>
            /\ calls[i] = 0
            /\ Terminal(i) => result[i] = MissingStreamArn

\* C2: an event with a StreamARN but without a ContactId (absent or empty) is
\* answered with the 400 "Missing contact_id" result, and no outbound call is
\* made for it.
C2_MissingContactIdRejected ==
    \A i \in Invocations :
        /\ Started(i)
        /\ Present(StreamArnOf(event[i]))
        /\ ~Present(ContactIdOf(event[i]))
        => /\ calls[i] = 0
           /\ Terminal(i) => result[i] = MissingContactId

\* C3: an invocation that passed both validations ends by returning
\* {statusCode: 200, contactId, streamArn} with the event's ContactId and
\* StreamARN, whatever the outcome of the delivery step was.
C3_DeliveryNeverChangesResult ==
    \A i \in Invocations :
        Validated(i) /\ Terminal(i) =>
            /\ raised[i] = "none"
            /\ result[i] = SuccessOf(event[i])

\* C4: every invocation ends in ValidationFailed (a 400 result) or Completed
\* (a 200 result); no exception leaves the handler.
C4_OnlyTwoTerminalStates ==
    \A i \in Invocations :
        Terminal(i) =>
            /\ raised[i] = "none"
            /\ ValidationFailed(result[i]) \/ Completed(result[i])

\* the endpoint is the base URL without its trailing slashes, then the path
EndpointOf(u, base) ==
    LET n == Len(u) - Len(CallStartedPath)
    IN  /\ n >= 0
        /\ n <= Len(base)
        /\ SubSeq(u, n + 1, Len(u)) = CallStartedPath
        /\ SubSeq(u, 1, n) = SubSeq(base, 1, n)
        /\ n > 0 => base[n] # "/"
        /\ \A m \in (n + 1)..Len(base) : base[m] = "/"

\* the JSON text the extraction rules give for field k of event e
JsonOf(e, k) ==
    LET x == FirstPresent(e, Sources[k])
    IN  IF Present(x) THEN "\"" \o x.v \o "\"" ELSE "null"

\* one POST to the call-started endpoint with the payload of the event
PostOf(r, e) ==
    /\ r.t = "request"
    /\ r.method = "POST"
    /\ EndpointOf(r.url, WHISPA_API_URL)
    /\ DOMAIN r.data = PayloadFields
    /\ \A k \in PayloadFields : r.data[k] = JsonOf(e, k)

\* C5 as stated: with a base URL configured, every invocation that passed
\* both validations makes exactly one POST to the call-started endpoint with
\* the payload as body, and no invocation makes more than one.
C5_ExactlyOnePostWhenConfigured ==
    \A i \in Invocations :
        /\ calls[i] <= 1
        /\ PastDelivery(i) /\ WHISPA_API_URL # <<>> =>
              /\ calls[i] = 1
              /\ PostOf(request[i], event[i])

\* C5 amended: with a base URL configured, an invocation that passed both
\* validations makes exactly one POST when the endpoint built from the base
\* URL starts with a URL scheme, and none when it does not (the request
\* object cannot be built); the POST goes to the base URL without its
\* trailing slashes followed by /awsconnect/call-started, with the payload as
\* body; no invocation makes more than one call.
C5_OnePostWhenRequestBuilds ==
    \A i \in Invocations :
        /\ calls[i] <= 1
        /\ calls[i] = 1 <=> Sent(i)
        /\ Sent(i) => PostOf(request[i], event[i])
        /\ PastDelivery(i) /\ WHISPA_API_URL # <<>> =>
              (calls[i] = 1 <=>
                 \E n \in 2..Len(WHISPA_API_URL) :
                    /\ WHISPA_API_URL[n] = ":"
                    /\ \A m \in 1..(n - 1) : WHISPA_API_URL[m] \notin {"/", ":"})

C5_Witness ==
    \E i \in Invocations :
        /\ pc[i] = "done"
        /\ calls[i] = 1
        /\ delivery[i] = "http_error"
        /\ Len(WHISPA_API_URL) > 2
        /\ WHISPA_API_URL[Len(WHISPA_API_URL)] = "/"
        /\ WHISPA_API_URL[Len(WHISPA_API_URL) - 1] = "/"

\* C6: without a base URL no invocation makes an outbound call, and one that
\* passed both validations still returns the 200 result.
C6_NoCallWithoutBaseUrl ==
    WHISPA_API_URL = <<>> =>
        \A i \in Invocations :
            /\ calls[i] = 0
            /\ ~Sent(i)
            /\ Validated(i) /\ Terminal(i) => result[i] = SuccessOf(event[i])

C6_Witness ==
    \E i \in Invocations :
        /\ WHISPA_API_URL = <<>>
        /\ pc[i] = "done"
        /\ delivery[i] = "skipped"
        /\ Completed(result[i])

\* C7: in every payload built, agent_arn is the first present (neither absent
\* nor empty) of Agent.ARN and Attributes.agent_arn, and agent_username the
\* first present of Agent.Username, Attributes.agent_username and Name; each
\* is null when none of its sources is present.
C7_AgentFallbackPrecedence ==
    \A i \in Invocations :
        Built(i) =>
            /\ payload[i].v["agent_arn"] =
                  FirstPresent(event[i], Sources["agent_arn"])
            /\ payload[i].v["agent_username"] =
                  FirstPresent(event[i], Sources["agent_username"])

C7_Witness ==
    \E i \in Invocations :
        /\ Built(i)
        /\ AtContactData(event[i], <<"Agent", "ARN">>) = Str("")
        /\ payload[i].v["agent_arn"] = Str("A2")
        /\ ~Present(AtContactData(event[i], <<"Agent", "Username">>))
        /\ ~Present(AtContactData(event[i], <<"Attributes", "agent_username">>))
        /\ payload[i].v["agent_username"] = Str("U3")

\* C8: in every payload built and every body sent, each of the eight fields
\* is a non-empty string or null; contact_id and stream_arn are non-empty;
\* an optional field is null exactly when its source is absent or empty and
\* is the source's value otherwise.
C8_PayloadFieldsNormalized ==
    \A i \in Invocations :
        /\ Built(i) =>
              /\ DOMAIN payload[i].v = PayloadFields
              /\ \A k \in PayloadFields :
                    /\ payload[i].v[k] = PyNone \/ Present(payload[i].v[k])
                    /\ payload[i].v[k] = FirstPresent(event[i], Sources[k])
              /\ Present(payload[i].v["contact_id"])
              /\ Present(payload[i].v["stream_arn"])
        /\ Sent(i) =>
              /\ DOMAIN request[i].data = PayloadFields
              /\ \A k \in PayloadFields :
                    /\ request[i].data[k] # "\"\""
                    /\ request[i].data[k] = "null" <=> payload[i].v[k] = PyNone
              /\ request[i].data["contact_id"] # "null"
              /\ request[i].data["stream_arn"] # "null"

C8_Witness ==
    \E i \in Invocations :
        /\ Sent(i)
        /\ AtContactData(event[i], <<"CustomerEndpoint", "Address">>) = Str("")
        /\ payload[i].v["customer_number"] = PyNone
        /\ request[i].data["customer_number"] = "null"
        /\ payload[i].v["queue_name"] = Str("q-1")

\* C9: the outcome of an invocation is determined by its event alone: two
\* invocations of the same event, however interleaved and whatever their
\* delivery outcomes, end with the same HandlerResult.
C9_ResultDeterminedByEvent ==
    \A i, j \in Invocations :
        /\ Terminal(i)
        /\ Terminal(j)
        /\ event[i] = event[j]
        => result[i] = result[j]

\* C10: every request sent carries Content-Type: application/json, and
\* carries X-API-Key, with the configured key as value, exactly when an API
\* key is configured; without a key the request is sent all the same.
C10_RequestHeaders ==
    \A i \in Invocations :
        /\ Sent(i) =>
              /\ "Content-Type" \in DOMAIN request[i].headers
              /\ request[i].headers["Content-Type"] = "application/json"
              /\ "X-API-Key" \in DOMAIN request[i].headers <=> WHISPA_API_KEY # ""
              /\ WHISPA_API_KEY # "" =>
                    request[i].headers["X-API-Key"] = WHISPA_API_KEY
        /\ PastDelivery(i) /\ calls[i] = 1 => Sent(i)

C10_Witness ==
    \E i \in Invocations :
        /\ Sent(i)
        /\ WHISPA_API_KEY = ""
        /\ DOMAIN request[i].headers = {"Content-Type"}
        /\ pc[i] = "done"

====
